---- MODULE Spec2Model ----
(***************************************************************************)
(* A model of shrpx's Downstream (src/shrpx_downstream.cc): the per-stream *)
(* object that holds the request and response header stores, the derived   *)
(* flags, the I/O control of the backend connection, the response body     *)
(* buffer and the response parser callbacks.                               *)
(*                                                                         *)
(* Strings are TLA+ strings (std::string); a header is a record            *)
(* [first, second] (std::pair<std::string, std::string>); a header store   *)
(* is a sequence of headers (std::vector).                                 *)
(***************************************************************************)
EXTENDS Integers, Sequences, FiniteSets, TLC

VARIABLES
  ds,      \* the Downstream object: one record field per data member
  htp,     \* response_htp_: the http_parser of the response
  bevs,    \* the backend connections' bufferevents: input and output queues
  wire,    \* the bytes the backend sends on the attached connection
  sent,    \* how many bytes of wire have reached the connection's input
  up,      \* the Upstream as the Downstream sees it: the notifications received
  last,    \* the most recent call on the Downstream and what it returned
  fault,   \* "none", or how the process ended: "assert", "segv", "corrupt"
  hist,    \* the header build operations performed so far, in call order
  fed      \* how parse_http_response was fed so far: "nothing", "bytewise"
           \* (one byte in every call) or "chunks"

vars == <<ds, htp, bevs, wire, sent, up, last, fault, hist, fed>>

----------------------------------------------------------------------------
(* Bounds of the model. *)

\* the longest sequence of header build operations explored
MaxOps == 4

\* the most bytes the response body buffer holds
MaxBodyLen == 2

----------------------------------------------------------------------------
(* util.h string helpers *)

UpperChars == "ABCDEFGHIJKLMNOPQRSTUVWXYZ"
LowerChars == "abcdefghijklmnopqrstuvwxyz"

UpperSet == {SubSeq(UpperChars, i, i) : i \in 1..26}

\* the lower-case letter of each upper-case letter
LowerOf ==
  [c \in UpperSet |->
     LET i == CHOOSE j \in 1..26 : SubSeq(UpperChars, j, j) = c
     IN SubSeq(LowerChars, i, i)]

\* util::lowcase
lowcase(c) == IF c \in UpperSet THEN LowerOf[c] ELSE c

RECURSIVE strlower(_)
strlower(s) ==
  IF Len(s) = 0 THEN ""
  ELSE lowcase(SubSeq(s, 1, 1)) \o strlower(SubSeq(s, 2, Len(s)))

\* util::strieq: equality ignoring case
strieq(a, b) == strlower(a) = strlower(b)

\* util::strifind: whether b occurs in a, ignoring case; false for an empty a
strifind(a, b) ==
  \E i \in 1..Len(a) :
     /\ i + Len(b) - 1 <= Len(a)
     /\ strlower(SubSeq(a, i, i + Len(b) - 1)) = strlower(b)

----------------------------------------------------------------------------
(* The derived flags: check_header_field and its users. Each takes the     *)
(* flag's current value and returns its new value.                         *)

check_header_field(result, item, name, value) ==
  IF strieq(item.first, name) /\ strifind(item.second, value)
  THEN TRUE
  ELSE result

check_transfer_encoding_chunked(chunked, item) ==
  check_header_field(chunked, item, "transfer-encoding", "chunked")

check_expect_100_continue(res, item) ==
  check_header_field(res, item, "expect", "100-continue")

----------------------------------------------------------------------------
(* The Downstream object after its constructor. *)

INITIAL == 0
HEADER_COMPLETE == 1
MSG_COMPLETE == 2

NoConn == 0

\* the backend connections a Downstream can be attached to
Conns == {1, 2}

\* an evbuffer: id is 0 for the null pointer and otherwise counts the
\* evbuffer_new calls made for this member; len is its length in bytes; cbs
\* is the number of callbacks registered on it
NullBuf == [id |-> 0, len |-> 0, cbs |-> 0]

Downstream_ctor ==
  [ dconn |-> NoConn,
    ioctrl_bev |-> NoConn,
    ioctrl_rdbits |-> {},
    request_headers |-> <<>>,
    request_header_key_prev |-> FALSE,
    chunked_request |-> FALSE,
    request_expect_100_continue |-> FALSE,
    request_method |-> "",
    response_state |-> INITIAL,
    response_http_status |-> 0,
    response_major |-> 1,
    response_minor |-> 1,
    chunked_response |-> FALSE,
    response_connection_close |-> FALSE,
    response_header_key_prev |-> FALSE,
    response_headers |-> <<>>,
    response_body_buf |-> NullBuf,
    recv_window_size |-> 0 ]

\* std::vector::back() replaced: the store with its last element changed
SetBack(hs, item) == [hs EXCEPT ![Len(hs)] = item]
Back(hs) == hs[Len(hs)]

----------------------------------------------------------------------------
(* Request header building *)

add_request_header(d, name, value) ==
  [d EXCEPT !.request_header_key_prev = TRUE,
            !.request_headers = Append(@, [first |-> name, second |-> value])]

set_last_request_header_value(d, value) ==
  LET item == [Back(d.request_headers) EXCEPT !.second = value]
  IN [d EXCEPT !.request_header_key_prev = FALSE,
               !.request_headers = SetBack(@, item),
               !.chunked_request = check_transfer_encoding_chunked(@, item),
               !.request_expect_100_continue = check_expect_100_continue(@, item)]

\* assert(request_header_key_prev_)
append_last_request_header_key_assert(d) == d.request_header_key_prev

append_last_request_header_key(d, data) ==
  LET item == [Back(d.request_headers) EXCEPT !.first = @ \o data]
  IN [d EXCEPT !.request_headers = SetBack(@, item)]

\* the assertion left out
append_last_request_header_value_unchecked(d) == TRUE

\* assert(!request_header_key_prev_)
append_last_request_header_value_assert(d) == ~d.request_header_key_prev

append_last_request_header_value(d, data) ==
  LET item == [Back(d.request_headers) EXCEPT !.second = @ \o data]
  IN [d EXCEPT !.request_headers = SetBack(@, item)]

----------------------------------------------------------------------------
(* Response header building *)

add_response_header(d, name, value) ==
  LET item == [first |-> name, second |-> value]
  IN [d EXCEPT !.response_header_key_prev = TRUE,
               !.response_headers = Append(@, item),
               !.chunked_response = check_transfer_encoding_chunked(@, item)]

set_last_response_header_value(d, value) ==
  LET item == [Back(d.response_headers) EXCEPT !.second = value]
  IN [d EXCEPT !.response_header_key_prev = FALSE,
               !.response_headers = SetBack(@, item),
               !.chunked_response = check_transfer_encoding_chunked(@, item)]

\* assert(response_header_key_prev_)
append_last_response_header_key_assert(d) == d.response_header_key_prev

\* the key bytes land in the value
append_last_response_header_key_into_value(d, data) ==
  LET item == [Back(d.response_headers) EXCEPT !.second = @ \o data]
  IN [d EXCEPT !.response_headers = SetBack(@, item)]

append_last_response_header_key(d, data) ==
  LET item == [Back(d.response_headers) EXCEPT !.first = @ \o data]
  IN [d EXCEPT !.response_headers = SetBack(@, item)]

\* assert(!response_header_key_prev_)
append_last_response_header_value_assert(d) == ~d.response_header_key_prev

append_last_response_header_value(d, data) ==
  LET item == [Back(d.response_headers) EXCEPT !.second = @ \o data]
  IN [d EXCEPT !.response_headers = SetBack(@, item)]

----------------------------------------------------------------------------
(* I/O control (shrpx_io_control.h): the reasons for which reading from    *)
(* the backend is paused, and the bufferevent whose reading it switches.   *)
(* A world w is the Downstream with the bufferevents: [ds, bevs].          *)

SHRPX_NO_BUFFER == "SHRPX_NO_BUFFER"
SHRPX_MSG_BLOCK == "SHRPX_MSG_BLOCK"
IOCtrlReasons == {SHRPX_NO_BUFFER, SHRPX_MSG_BLOCK}

\* bufferevent_enable / bufferevent_disable of EV_READ on the bound bufferevent
SetReading(w, on) ==
  IF w.ds.ioctrl_bev = NoConn THEN w
  ELSE [w EXCEPT !.bevs[w.ds.ioctrl_bev].read_enabled = on]

IOControl_set_bev(w, bev) == [w EXCEPT !.ds.ioctrl_bev = bev]

IOControl_pause_read(w, reason) ==
  SetReading([w EXCEPT !.ds.ioctrl_rdbits = @ \cup {reason}], FALSE)

\* returns the world with ret: whether reading was resumed
IOControl_resume_read(w, reason) ==
  LET w1 == [w EXCEPT !.ds.ioctrl_rdbits = @ \ {reason}]
  IN IF w1.ds.ioctrl_rdbits = {}
     THEN [SetReading(w1, TRUE) EXCEPT !.ret = 1]
     ELSE [w1 EXCEPT !.ret = 0]

IOControl_force_resume_read(w) ==
  SetReading([w EXCEPT !.ds.ioctrl_rdbits = {}], TRUE)

----------------------------------------------------------------------------
(* Downstream: the connection and the reads from it *)

World == [ds |-> ds, bevs |-> bevs, ret |-> 0, resumes |-> <<>>]

\* the I/O control keeps its bufferevent when the connection is detached
set_downstream_connection_keeps_bev(w, dconn) ==
  LET w1 == [w EXCEPT !.ds.dconn = dconn]
  IN IF dconn # NoConn
     THEN IOControl_set_bev(w1, dconn)
     ELSE w1

set_downstream_connection(w, dconn) ==
  LET w1 == [w EXCEPT !.ds.dconn = dconn]
  IN IF dconn # NoConn
     THEN IOControl_set_bev(w1, dconn)
     ELSE IOControl_set_bev(w1, NoConn)

pause_read(w, reason) == IOControl_pause_read(w, reason)

\* every reason dropped, whatever the reason given
resume_read_forced(w, reason) ==
  [IOControl_force_resume_read(w) EXCEPT !.ret = 1]

resume_read(w, reason) == IOControl_resume_read(w, reason)

force_resume_read(w) == IOControl_force_resume_read(w)

----------------------------------------------------------------------------
(* The response body buffer. evbuffer_setcb leaves one callback on the     *)
(* buffer; libevent runs it after every evbuffer_add and evbuffer_drain    *)
(* that changes the length, with the lengths before and after.             *)

\* resume on every change of the buffer
body_buf_cb_always(w, oldlen, newlen) ==
  [resume_read(w, SHRPX_NO_BUFFER) EXCEPT
     !.resumes = Append(w.resumes, SHRPX_NO_BUFFER)]

body_buf_cb(w, oldlen, newlen) ==
  IF newlen = 0
  THEN [resume_read(w, SHRPX_NO_BUFFER) EXCEPT
          !.resumes = Append(w.resumes, SHRPX_NO_BUFFER)]
  ELSE w

init_response_body_buf(w) ==
  IF w.ds.response_body_buf.id = 0
  THEN [w EXCEPT !.ds.response_body_buf =
                    [id |-> @.id + 1, len |-> 0, cbs |-> 1]]
  ELSE w

\* evbuffer_run_callbacks: each registered callback once
RECURSIVE RunBodyBufCallbacks(_, _, _, _)
RunBodyBufCallbacks(w, n, oldlen, newlen) ==
  IF n = 0 THEN w
  ELSE RunBodyBufCallbacks(body_buf_cb(w, oldlen, newlen), n - 1, oldlen, newlen)

\* the buffer's length changed to newlen by an evbuffer_add or evbuffer_drain
ChangeBodyBuf(w, newlen) ==
  LET oldlen == w.ds.response_body_buf.len
      w1 == [w EXCEPT !.ds.response_body_buf.len = newlen]
  IN RunBodyBufCallbacks(w1, w1.ds.response_body_buf.cbs, oldlen, newlen)

----------------------------------------------------------------------------
(* The response parser (http_parser.h). The connection's input is a        *)
(* sequence of bytes; a status line with its CRLF and a CRLF are each one  *)
(* element, every other element is one character. The parser reads the     *)
(* status line, the header lines, and the body that the headers and the    *)
(* on_headers_complete result announce, and calls the hooks of htp_hooks.  *)

CRLF == "\r\n"

Chars(str) == [i \in 1..Len(str) |-> SubSeq(str, i, i)]

Digits == "0123456789"
IsDigit(c) == \E i \in 1..10 : SubSeq(Digits, i, i) = c
DigitVal(c) == (CHOOSE i \in 1..10 : SubSeq(Digits, i, i) = c) - 1

RECURSIVE StrToNat(_)
StrToNat(str) ==
  IF Len(str) = 0 THEN 0
  ELSE 10 * StrToNat(SubSeq(str, 1, Len(str) - 1))
       + DigitVal(SubSeq(str, Len(str), Len(str)))

AllDigits(str) ==
  Len(str) > 0 /\ \A i \in 1..Len(str) : IsDigit(SubSeq(str, i, i))

\* "HTTP/<major>.<minor> <code> <reason>CRLF"
IsStatusLine(ch) ==
  /\ Len(ch) >= 14
  /\ SubSeq(ch, 1, 5) = "HTTP/"
  /\ IsDigit(SubSeq(ch, 6, 6))
  /\ SubSeq(ch, 7, 7) = "."
  /\ IsDigit(SubSeq(ch, 8, 8))
  /\ SubSeq(ch, 9, 9) = " "
  /\ AllDigits(SubSeq(ch, 10, 12))
  /\ SubSeq(ch, Len(ch) - 1, Len(ch)) = CRLF

http_parser_init ==
  [ state |-> "s_start_res",
    http_errno |-> "HPE_OK",
    status_code |-> 0,
    http_major |-> 0,
    http_minor |-> 0,
    flags |-> {},
    content_length |-> -1,
    hname |-> "",
    hvalue |-> "" ]

http_should_keep_alive(p) ==
  IF p.http_major > 0 /\ p.http_minor > 0
  THEN "F_CONNECTION_CLOSE" \notin p.flags
  ELSE "F_CONNECTION_KEEP_ALIVE" \in p.flags

NEW_MESSAGE(p) == IF http_should_keep_alive(p) THEN "s_start_res" ELSE "s_dead"

\* what the parser takes from a complete header line
HeaderLineDone(p) ==
  IF strieq(p.hname, "content-length")
  THEN IF AllDigits(p.hvalue)
       THEN [p EXCEPT !.content_length = StrToNat(p.hvalue)]
       ELSE [p EXCEPT !.http_errno = "HPE_INVALID_CONTENT_LENGTH"]
  ELSE IF strieq(p.hname, "transfer-encoding") /\ strieq(p.hvalue, "chunked")
  THEN [p EXCEPT !.flags = @ \cup {"F_CHUNKED"}]
  ELSE IF strieq(p.hname, "connection") /\ strieq(p.hvalue, "close")
  THEN [p EXCEPT !.flags = @ \cup {"F_CONNECTION_CLOSE"}]
  ELSE IF strieq(p.hname, "connection") /\ strieq(p.hvalue, "keep-alive")
  THEN [p EXCEPT !.flags = @ \cup {"F_CONNECTION_KEEP_ALIVE"}]
  ELSE p

----------------------------------------------------------------------------
(* The Upstream's notifications (shrpx_upstream.h). A run st of the parser *)
(* carries the Downstream, the bufferevents, the parser, the notifications *)
(* received so far, and how the Upstream answers during this call: beh     *)
(* names the notification that fails, the notification in which the        *)
(* Upstream changes the Downstream's connection, and the connection set.   *)

Hooks == {"hc", "body", "mc"}

Quiet == [fail |-> "none", detach |-> "none", to |-> NoConn]

Behaviours ==
  {Quiet}
  \cup {[fail |-> h, detach |-> "none", to |-> NoConn] : h \in Hooks}
  \cup {[fail |-> "none", detach |-> h, to |-> c] :
          h \in Hooks, c \in Conns \cup {NoConn}}

Notification(st, ev, ret, data) ==
  [ ev |-> ev,
    ret |-> ret,
    data |-> data,
    state |-> st.ds.response_state,
    method |-> st.ds.request_method,
    status |-> st.ds.response_http_status,
    version |-> 100 * st.ds.response_major + st.ds.response_minor,
    headers |-> IF ev = "hc" THEN st.ds.response_headers ELSE <<>> ]

\* on_downstream_header_complete, on_downstream_body and
\* on_downstream_body_complete: the result is st.ret
Upstream_notify(st, ev, data) ==
  LET ret == IF st.beh.fail = ev THEN -1 ELSE 0
      st1 == [st EXCEPT !.up = Append(@, Notification(st, ev, ret, data)),
                        !.ret = ret]
  IN IF st.beh.detach = ev
     THEN LET w == set_downstream_connection(
                     [ds |-> st1.ds, bevs |-> st1.bevs, ret |-> 0,
                      resumes |-> <<>>], st.beh.to)
          IN [st1 EXCEPT !.ds = w.ds, !.bevs = w.bevs]
     ELSE st1

----------------------------------------------------------------------------
(* The parser callbacks of the Downstream (htp_hooks) *)

set_response_http_status(d, status) == [d EXCEPT !.response_http_status = status]
set_response_major(d, major) == [d EXCEPT !.response_major = major]
set_response_minor(d, minor) == [d EXCEPT !.response_minor = minor]
set_response_connection_close(d, f) == [d EXCEPT !.response_connection_close = f]
set_response_state(d, state) == [d EXCEPT !.response_state = state]

\* 304 forgotten
IgnoreBody_without_304(method, status) ==
  \/ method = "HEAD"
  \/ (100 <= status /\ status <= 199)
  \/ status = 204

\* whether the response carries no body
IgnoreBody(method, status) ==
  \/ method = "HEAD"
  \/ (100 <= status /\ status <= 199)
  \/ status = 204
  \/ status = 304

htp_hdrs_completecb_result(method, status) ==
  IF IgnoreBody(method, status) THEN 1 ELSE 0

\* the Upstream's failure ignored
htp_hdrs_completecb_return_ignoring(st1) ==
  [st1 EXCEPT !.ret =
     htp_hdrs_completecb_result(st1.ds.request_method,
                                st1.ds.response_http_status)]

\* -1 when the Upstream failed, else whether the body is to be skipped
htp_hdrs_completecb_return(st1) ==
  IF st1.ret # 0
  THEN [st1 EXCEPT !.ret = -1]
  ELSE [st1 EXCEPT !.ret =
          htp_hdrs_completecb_result(st1.ds.request_method,
                                     st1.ds.response_http_status)]

\* the response state left as it was
htp_hdrs_completecb_keeps_state(st) ==
  LET d1 == set_response_http_status(st.ds, st.htp.status_code)
      d2 == set_response_major(d1, st.htp.http_major)
      d3 == set_response_minor(d2, st.htp.http_minor)
      d4 == set_response_connection_close(d3, ~http_should_keep_alive(st.htp))
  IN htp_hdrs_completecb_return(Upstream_notify([st EXCEPT !.ds = d4], "hc", ""))

htp_hdrs_completecb(st) ==
  LET d1 == set_response_http_status(st.ds, st.htp.status_code)
      d2 == set_response_major(d1, st.htp.http_major)
      d3 == set_response_minor(d2, st.htp.http_minor)
      d4 == set_response_connection_close(d3, ~http_should_keep_alive(st.htp))
      d5 == set_response_state(d4, HEADER_COMPLETE)
  IN htp_hdrs_completecb_return(Upstream_notify([st EXCEPT !.ds = d5], "hc", ""))

\* every header-field event starts a field
htp_hdr_keycb_always_add(st, data) ==
  [st EXCEPT !.ds = add_response_header(st.ds, data, ""), !.ret = 0]

htp_hdr_keycb(st, data) ==
  IF st.ds.response_header_key_prev
  THEN IF append_last_response_header_key_assert(st.ds)
       THEN [st EXCEPT !.ds = append_last_response_header_key(st.ds, data),
                       !.ret = 0]
       ELSE [st EXCEPT !.fault = "assert"]
  ELSE [st EXCEPT !.ds = add_response_header(st.ds, data, ""), !.ret = 0]

\* every piece finalizes the value anew
htp_hdr_valcb_always_set(st, data) ==
  [st EXCEPT !.ds = set_last_response_header_value(st.ds, data), !.ret = 0]

htp_hdr_valcb(st, data) ==
  IF st.ds.response_header_key_prev
  THEN [st EXCEPT !.ds = set_last_response_header_value(st.ds, data), !.ret = 0]
  ELSE IF append_last_response_header_value_assert(st.ds)
       THEN [st EXCEPT !.ds = append_last_response_header_value(st.ds, data),
                       !.ret = 0]
       ELSE [st EXCEPT !.fault = "assert"]

htp_bodycb(st, data) == Upstream_notify(st, "body", data)

htp_msg_completecb(st) ==
  Upstream_notify([st EXCEPT !.ds = set_response_state(st.ds, MSG_COMPLETE)],
                  "mc", "")

----------------------------------------------------------------------------
(* http_parser_execute. st.acc holds the bytes since the mark of the       *)
(* current header field, header value or body span; st.c0 is the           *)
(* connection parse_http_response took its input from.                     *)

Stopped(st) == st.htp.http_errno # "HPE_OK" \/ st.fault # "none"

SetErrno(st, e) == [st EXCEPT !.htp.http_errno = e]

\* what the run does to the connection it started on after that connection
\* was detached or replaced
CountStale(st) ==
  IF st.ds.dconn # st.c0 THEN [st EXCEPT !.stale = @ + 1] ELSE st

\* the parser after a data callback returned: a nonzero result stops it
CALLBACK_DATA(st1, errno) ==
  IF st1.fault = "none" /\ st1.ret # 0
  THEN SetErrno(st1, errno)
  ELSE [st1 EXCEPT !.acc = ""]

\* CALLBACK_DATA(header_field)
OnHeaderField(st) ==
  CALLBACK_DATA(htp_hdr_keycb(CountStale(st), st.acc), "HPE_CB_header_field")

\* CALLBACK_DATA(header_value)
OnHeaderValue(st) ==
  CALLBACK_DATA(htp_hdr_valcb(CountStale(st), st.acc), "HPE_CB_header_value")

\* CALLBACK_DATA(body)
OnBody(st) ==
  CALLBACK_DATA(htp_bodycb(CountStale(st), st.acc), "HPE_CB_body")

\* the parser after a notify callback returned
CALLBACK_NOTIFY(st1, errno) ==
  IF st1.ret # 0 THEN SetErrno(st1, errno) ELSE st1

\* parser->state = NEW_MESSAGE(); CALLBACK_NOTIFY(message_complete)
OnMessageComplete(st) ==
  CALLBACK_NOTIFY(
    htp_msg_completecb(CountStale([st EXCEPT !.htp.state = NEW_MESSAGE(st.htp)])),
    "HPE_CB_message_complete")

\* the body that the headers announce
BodyAnnounced(st2) ==
  IF "F_SKIPBODY" \in st2.htp.flags THEN OnMessageComplete(st2)
  ELSE IF "F_CHUNKED" \in st2.htp.flags
  THEN [st2 EXCEPT !.htp.state = "s_chunk_size_start"]
  ELSE IF st2.htp.content_length = 0 THEN OnMessageComplete(st2)
  ELSE IF st2.htp.content_length # -1
  THEN [st2 EXCEPT !.htp.state = "s_body_identity"]
  ELSE IF http_should_keep_alive(st2.htp) THEN OnMessageComplete(st2)
  ELSE [st2 EXCEPT !.htp.state = "s_body_identity_eof"]

\* the parser after on_headers_complete returned: 0 goes on to the body,
\* 1 skips the body, anything else stops the parser
AfterHeadersComplete(st1) ==
  IF st1.ret = 0 THEN BodyAnnounced(st1)
  ELSE IF st1.ret = 1
  THEN BodyAnnounced([st1 EXCEPT !.htp.flags = @ \cup {"F_SKIPBODY"}])
  ELSE SetErrno(st1, "HPE_CB_headers_complete")

\* the end of the header block: on_headers_complete, then the body it announces
OnHeadersComplete(st) ==
  IF "F_TRAILING" \in st.htp.flags THEN OnMessageComplete(st)
  ELSE AfterHeadersComplete(htp_hdrs_completecb(CountStale(st)))

\* the parser notes a header line whose value was delivered
AfterHeaderLine(st1) ==
  IF Stopped(st1) THEN st1
  ELSE [st1 EXCEPT !.htp = [HeaderLineDone(st1.htp) EXCEPT
                              !.state = "s_header_field_start"]]

\* the end of a header line: the value is delivered, the parser notes the line
OnHeaderLine(st) == AfterHeaderLine(OnHeaderValue(st))

\* the parser goes on from a delivery st1 in state next, or with message
\* complete for next = "", unless the delivery stopped it
GoOn(st1, next) ==
  IF Stopped(st1) THEN st1
  ELSE IF next = "" THEN OnMessageComplete(st1)
  ELSE [st1 EXCEPT !.htp.state = next]

\* a byte of a body of known length
BodyByte(st1, next) ==
  IF st1.htp.content_length > 0 THEN st1 ELSE GoOn(OnBody(st1), next)

\* one byte ch in the parser's state
ParseByte(st, ch) ==
  LET p == st.htp
  IN CASE p.state = "s_dead" -> SetErrno(st, "HPE_CLOSED_CONNECTION")
       [] p.state = "s_start_res" ->
            IF IsStatusLine(ch)
            THEN [st EXCEPT !.htp =
                    [p EXCEPT !.state = "s_header_field_start",
                              !.http_major = DigitVal(SubSeq(ch, 6, 6)),
                              !.http_minor = DigitVal(SubSeq(ch, 8, 8)),
                              !.status_code = StrToNat(SubSeq(ch, 10, 12)),
                              !.flags = {},
                              !.content_length = -1]]
            ELSE SetErrno(st, "HPE_INVALID_CONSTANT")
       [] p.state = "s_header_field_start" ->
            IF ch = CRLF THEN OnHeadersComplete(st)
            ELSE IF Len(ch) # 1 \/ ch \in {":", " "}
            THEN SetErrno(st, "HPE_INVALID_HEADER_TOKEN")
            ELSE [st EXCEPT !.htp.state = "s_header_field",
                            !.htp.hname = ch,
                            !.htp.hvalue = "",
                            !.acc = ch]
       [] p.state = "s_header_field" ->
            IF ch = ":"
            THEN GoOn(OnHeaderField(st), "s_header_value_start")
            ELSE IF Len(ch) # 1 \/ ch = " "
            THEN SetErrno(st, "HPE_INVALID_HEADER_TOKEN")
            ELSE [st EXCEPT !.htp.hname = @ \o ch, !.acc = @ \o ch]
       [] p.state = "s_header_value_start" ->
            IF ch = " " THEN st
            ELSE IF ch = CRLF THEN OnHeaderLine([st EXCEPT !.acc = ""])
            ELSE IF Len(ch) # 1 THEN SetErrno(st, "HPE_INVALID_HEADER_TOKEN")
            ELSE [st EXCEPT !.htp.state = "s_header_value",
                            !.htp.hvalue = ch,
                            !.acc = ch]
       [] p.state = "s_header_value" ->
            IF ch = CRLF THEN OnHeaderLine(st)
            ELSE IF Len(ch) # 1 THEN SetErrno(st, "HPE_INVALID_HEADER_TOKEN")
            ELSE [st EXCEPT !.htp.hvalue = @ \o ch, !.acc = @ \o ch]
       [] p.state = "s_body_identity" ->
            BodyByte([st EXCEPT !.acc = @ \o ch,
                                !.htp.content_length = @ - 1], "")
       [] p.state = "s_body_identity_eof" -> [st EXCEPT !.acc = @ \o ch]
       [] p.state = "s_chunk_size_start" ->
            IF IsDigit(ch)
            THEN [st EXCEPT !.htp.state = "s_chunk_size",
                            !.htp.content_length = DigitVal(ch)]
            ELSE SetErrno(st, "HPE_INVALID_CHUNK_SIZE")
       [] p.state = "s_chunk_size" ->
            IF ch = CRLF
            THEN IF p.content_length = 0
                 THEN [st EXCEPT !.htp.state = "s_header_field_start",
                                 !.htp.flags = @ \cup {"F_TRAILING"}]
                 ELSE [st EXCEPT !.htp.state = "s_chunk_data"]
            ELSE IF IsDigit(ch)
            THEN [st EXCEPT !.htp.content_length = 16 * @ + DigitVal(ch)]
            ELSE SetErrno(st, "HPE_INVALID_CHUNK_SIZE")
       [] p.state = "s_chunk_data" ->
            BodyByte([st EXCEPT !.acc = @ \o ch,
                                !.htp.content_length = @ - 1],
                     "s_chunk_data_done")
       [] p.state = "s_chunk_data_done" ->
            IF ch = CRLF THEN [st EXCEPT !.htp.state = "s_chunk_size_start"]
            ELSE SetErrno(st, "HPE_STRICT")

\* the end of the data: the span under a mark is delivered as far as it goes
FlushMarks(st) ==
  CASE st.htp.state = "s_header_field" -> OnHeaderField(st)
    [] st.htp.state = "s_header_value" -> OnHeaderValue(st)
    [] st.htp.state \in {"s_body_identity", "s_body_identity_eof", "s_chunk_data"}
         /\ st.acc # "" -> OnBody(st)
    [] OTHER -> st

\* a callback that fails has consumed its byte; a byte the grammar rejects
\* has not been consumed
RECURSIVE ParseFrom(_, _, _)

ParseNext(st1, data, i) ==
  IF Stopped(st1)
  THEN [st1 EXCEPT !.nread =
          IF SubSeq(st1.htp.http_errno, 1, 6) = "HPE_CB" THEN i ELSE i - 1]
  ELSE ParseFrom(st1, data, i + 1)

ParseFrom(st, data, i) ==
  IF i > Len(data) THEN [FlushMarks(st) EXCEPT !.nread = Len(data)]
  ELSE ParseNext(ParseByte(st, data[i]), data, i)

http_parser_execute(st, data) ==
  IF st.htp.http_errno # "HPE_OK" THEN [st EXCEPT !.nread = 0]
  ELSE ParseFrom([st EXCEPT !.acc = ""], data, 1)

----------------------------------------------------------------------------
(* Downstream::parse_http_response *)

\* shrpx_error.h; the model uses only that it is not 0
SHRPX_ERR_HTTP_PARSE == -2

\* the run of the parser on the input of connection c0, the Upstream
\* answering as beh
ParserRun(d, b, p, u, beh) ==
  [ ds |-> d, bevs |-> b, htp |-> p, up |-> u, fault |-> "none",
    beh |-> beh, c0 |-> d.dconn, acc |-> "", ret |-> 0, nread |-> 0,
    stale |-> 0 ]

\* the whole input drained
DrainInput_everything(st) ==
  [CountStale(st) EXCEPT !.bevs[st.c0].input = <<>>]

\* evbuffer_drain(input, nread) on the input taken when the call began
DrainInput(st) ==
  LET input == st.bevs[st.c0].input
  IN [CountStale(st) EXCEPT
        !.bevs[st.c0].input = SubSeq(input, st.nread + 1, Len(input))]

\* an assertion that failed in a callback has ended the program
AfterExecute(st1) == IF st1.fault = "none" THEN DrainInput(st1) ELSE st1

ParseResult(st2) ==
  [st2 EXCEPT !.ret = IF st2.htp.http_errno = "HPE_OK"
                      THEN 0 ELSE SHRPX_ERR_HTTP_PARSE]

parse_http_response(st) ==
  ParseResult(AfterExecute(http_parser_execute(st, st.bevs[st.c0].input)))

----------------------------------------------------------------------------
(* The state after Downstream::Downstream: no connection attached, nothing *)
(* received, no call made.                                                 *)

\* op: the member function called; arg: its string argument; ret: its result
\* (a bool as 1 or 0); resumes: the reasons of the resume_read calls that
\* callbacks made while it ran; stale: the parser events delivered and the
\* operations made on the connection's input after the connection the call
\* began with was detached or replaced
NoCall == [op |-> "none", arg |-> "", ret |-> 0, resumes |-> <<>>, stale |-> 0]

Call(op, arg, ret) ==
  [op |-> op, arg |-> arg, ret |-> ret, resumes |-> <<>>, stale |-> 0]

\* what dereferencing back() of an empty std::vector can do
UndefinedOutcomes == {"segv", "corrupt"}

\* the backend connections exist, idle and reading
Fresh ==
  /\ ds = Downstream_ctor
  /\ htp = http_parser_init
  /\ bevs = [c \in Conns |-> [input |-> <<>>, read_enabled |-> TRUE,
                              output |-> 0]]
  /\ sent = 0
  /\ up = <<>>
  /\ last = NoCall
  /\ fault = "none"
  /\ hist = <<>>
  /\ fed = "nothing"

Init == Fresh /\ wire = <<>>

----------------------------------------------------------------------------
(* Header build operations, as the owner of the Downstream calls them.     *)
(* A call that fails an assert or runs into undefined behaviour ends the   *)
(* process: no action is enabled afterwards.                               *)

AddNames == {"Transfer-", "Expect"}
AddValues == {"", "chunked"}
KeyPieces == {"Encoding"}
SetValues == {"chu", "chunked", "100-"}
ValuePieces == {"nked", "continue"}

Op(op, side, data) == [op |-> op, side |-> side, data |-> data]

Running == fault = "none" /\ Len(hist) < MaxOps

HdrUnchanged == UNCHANGED <<htp, bevs, wire, sent, up, fed>>

AddRequestHeader ==
  \E name \in AddNames, value \in AddValues :
    /\ Running
    /\ ds' = add_request_header(ds, name, value)
    /\ last' = Call("add_request_header", name, 0)
    /\ hist' = Append(hist, Op("add", "req", <<name, value>>))
    /\ UNCHANGED fault
    /\ HdrUnchanged

SetLastRequestHeaderValue ==
  \E value \in SetValues :
    /\ Running
    /\ last' = Call("set_last_request_header_value", value, 0)
    /\ IF Len(ds.request_headers) = 0
       THEN /\ fault' \in UndefinedOutcomes
            /\ ds' = [ds EXCEPT !.request_header_key_prev = FALSE]
            /\ UNCHANGED hist
       ELSE /\ ds' = set_last_request_header_value(ds, value)
            /\ hist' = Append(hist, Op("set", "req", <<value>>))
            /\ UNCHANGED fault
    /\ HdrUnchanged

AppendLastRequestHeaderKey ==
  \E data \in KeyPieces :
    /\ Running
    /\ last' = Call("append_last_request_header_key", data, 0)
    /\ IF ~append_last_request_header_key_assert(ds)
       THEN /\ fault' = "assert"
            /\ UNCHANGED <<ds, hist>>
       ELSE IF Len(ds.request_headers) = 0
       THEN /\ fault' \in UndefinedOutcomes
            /\ UNCHANGED <<ds, hist>>
       ELSE /\ ds' = append_last_request_header_key(ds, data)
            /\ hist' = Append(hist, Op("appk", "req", <<data>>))
            /\ UNCHANGED fault
    /\ HdrUnchanged

AppendLastRequestHeaderValue ==
  \E data \in ValuePieces :
    /\ Running
    /\ last' = Call("append_last_request_header_value", data, 0)
    /\ IF ~append_last_request_header_value_assert(ds)
       THEN /\ fault' = "assert"
            /\ UNCHANGED <<ds, hist>>
       ELSE IF Len(ds.request_headers) = 0
       THEN /\ fault' \in UndefinedOutcomes
            /\ UNCHANGED <<ds, hist>>
       ELSE /\ ds' = append_last_request_header_value(ds, data)
            /\ hist' = Append(hist, Op("appv", "req", <<data>>))
            /\ UNCHANGED fault
    /\ HdrUnchanged

AddResponseHeader ==
  \E name \in AddNames, value \in AddValues :
    /\ Running
    /\ ds' = add_response_header(ds, name, value)
    /\ last' = Call("add_response_header", name, 0)
    /\ hist' = Append(hist, Op("add", "res", <<name, value>>))
    /\ UNCHANGED fault
    /\ HdrUnchanged

SetLastResponseHeaderValue ==
  \E value \in SetValues :
    /\ Running
    /\ last' = Call("set_last_response_header_value", value, 0)
    /\ IF Len(ds.response_headers) = 0
       THEN /\ fault' \in UndefinedOutcomes
            /\ ds' = [ds EXCEPT !.response_header_key_prev = FALSE]
            /\ UNCHANGED hist
       ELSE /\ ds' = set_last_response_header_value(ds, value)
            /\ hist' = Append(hist, Op("set", "res", <<value>>))
            /\ UNCHANGED fault
    /\ HdrUnchanged

AppendLastResponseHeaderKey ==
  \E data \in KeyPieces :
    /\ Running
    /\ last' = Call("append_last_response_header_key", data, 0)
    /\ IF ~append_last_response_header_key_assert(ds)
       THEN /\ fault' = "assert"
            /\ UNCHANGED <<ds, hist>>
       ELSE IF Len(ds.response_headers) = 0
       THEN /\ fault' \in UndefinedOutcomes
            /\ UNCHANGED <<ds, hist>>
       ELSE /\ ds' = append_last_response_header_key(ds, data)
            /\ hist' = Append(hist, Op("appk", "res", <<data>>))
            /\ UNCHANGED fault
    /\ HdrUnchanged

AppendLastResponseHeaderValue ==
  \E data \in ValuePieces :
    /\ Running
    /\ last' = Call("append_last_response_header_value", data, 0)
    /\ IF ~append_last_response_header_value_assert(ds)
       THEN /\ fault' = "assert"
            /\ UNCHANGED <<ds, hist>>
       ELSE IF Len(ds.response_headers) = 0
       THEN /\ fault' \in UndefinedOutcomes
            /\ UNCHANGED <<ds, hist>>
       ELSE /\ ds' = append_last_response_header_value(ds, data)
            /\ hist' = Append(hist, Op("appv", "res", <<data>>))
            /\ UNCHANGED fault
    /\ HdrUnchanged

NextHdr ==
  \/ AddRequestHeader
  \/ SetLastRequestHeaderValue
  \/ AppendLastRequestHeaderKey
  \/ AppendLastRequestHeaderValue
  \/ AddResponseHeader
  \/ SetLastResponseHeaderValue
  \/ AppendLastResponseHeaderKey
  \/ AppendLastResponseHeaderValue

\* the header stores under every sequence of header build operations
SpecHdr == Init /\ [][NextHdr]_vars

----------------------------------------------------------------------------
(* The I/O operations as the Upstream and the connection pool call them.   *)

IoUnchanged == UNCHANGED <<htp, wire, sent, up, fault, fed>>

\* hist keeps the last three pause and resume calls made since the connection
\* was set
Recent(h, o) == IF Len(h) < 3 THEN Append(h, o) ELSE Append(Tail(h), o)

\* the world w becomes the state; the call made is op(arg)
Returns(w, op, arg) ==
  /\ ds' = w.ds
  /\ bevs' = w.bevs
  /\ last' = [op |-> op, arg |-> arg, ret |-> w.ret, resumes |-> w.resumes,
              stale |-> 0]

SetDownstreamConnection ==
  \E dconn \in Conns \cup {NoConn} :
    /\ fault = "none"
    /\ Returns(set_downstream_connection(World, dconn),
               "set_downstream_connection", "")
    /\ hist' = <<>>
    /\ IoUnchanged

PauseRead ==
  \E reason \in IOCtrlReasons :
    /\ fault = "none"
    /\ Returns(pause_read(World, reason), "pause_read", reason)
    /\ hist' = Recent(hist, Op("pause_read", "io", <<reason>>))
    /\ IoUnchanged

ResumeRead ==
  \E reason \in IOCtrlReasons :
    /\ fault = "none"
    /\ Returns(resume_read(World, reason), "resume_read", reason)
    /\ hist' = Recent(hist, Op("resume_read", "io", <<reason>>))
    /\ IoUnchanged

ForceResumeRead ==
  /\ fault = "none"
  /\ Returns(force_resume_read(World), "force_resume_read", "")
  /\ hist' = Recent(hist, Op("force_resume_read", "io", <<"">>))
  /\ IoUnchanged

InitResponseBodyBuf ==
  /\ fault = "none"
  /\ Returns(init_response_body_buf(World), "init_response_body_buf", "")
  /\ UNCHANGED hist
  /\ IoUnchanged

\* the Upstream stores body bytes: evbuffer_add on get_response_body_buf()
BodyBufAdd ==
  \E n \in 1..MaxBodyLen :
    /\ fault = "none"
    /\ ds.response_body_buf.id # 0
    /\ ds.response_body_buf.len + n <= MaxBodyLen
    /\ Returns(ChangeBodyBuf(World, ds.response_body_buf.len + n),
               "evbuffer_add", "")
    /\ UNCHANGED hist
    /\ IoUnchanged

\* the Upstream sends body bytes on: evbuffer_drain or evbuffer_remove
BodyBufDrain ==
  \E n \in 1..MaxBodyLen :
    /\ fault = "none"
    /\ ds.response_body_buf.id # 0
    /\ n <= ds.response_body_buf.len
    /\ Returns(ChangeBodyBuf(World, ds.response_body_buf.len - n),
               "evbuffer_drain", "")
    /\ UNCHANGED hist
    /\ IoUnchanged

NextIo ==
  \/ SetDownstreamConnection
  \/ PauseRead
  \/ ResumeRead
  \/ ForceResumeRead
  \/ InitResponseBodyBuf
  \/ BodyBufAdd
  \/ BodyBufDrain

\* the I/O control and the body buffer under every sequence of operations
SpecIo == Init /\ [][NextIo]_vars

----------------------------------------------------------------------------
(* The request on its way to the backend. DownstreamConnection             *)
(* (shrpx_downstream_connection.h) writes the request headers and the      *)
(* upload data to the output of its bufferevent and returns 0, or -1 when  *)
(* it could not; a bufferevent's output is modelled by its length.         *)

\* the output of one connection is followed up to this length
MaxOutput == 131072

\* the lengths of what is written at once
ChunkLens == {32768, 65536}

\* shrpx_downstream.h
DOWNSTREAM_OUTPUT_UPPER_THRES == 65536

TransportResults == {0, -1}

\* connection c writes n bytes with result r
DownstreamConnection_write(w, c, n, r) ==
  IF r = 0
  THEN [w EXCEPT !.bevs[c].output = @ + n, !.ret = r]
  ELSE [w EXCEPT !.ret = r]

DownstreamConnection_push_request_headers(w, c, n, r) ==
  DownstreamConnection_write(w, c, n, r)

DownstreamConnection_push_upload_data_chunk(w, c, datalen, r) ==
  DownstreamConnection_write(w, c, datalen, r)

\* called with a connection attached; without one dconn_-> dereferences a
\* null pointer
push_request_headers(w, n, r) ==
  DownstreamConnection_push_request_headers(w, w.ds.dconn, n, r)

\* the connection's result handed on as 0
push_upload_data_chunk_swallowed(w, datalen, r) ==
  IF w.ds.dconn = NoConn
  THEN [w EXCEPT !.ret = 0]
  ELSE [DownstreamConnection_push_upload_data_chunk(w, w.ds.dconn, datalen, r)
          EXCEPT !.ret = 0]

push_upload_data_chunk(w, datalen, r) ==
  IF w.ds.dconn = NoConn
  THEN [w EXCEPT !.ret = 0]
  ELSE DownstreamConnection_push_upload_data_chunk(w, w.ds.dconn, datalen, r)

\* the result is a bool as 1 or 0
get_output_buffer_full(w) ==
  IF w.ds.dconn # NoConn
  THEN [w EXCEPT !.ret =
          IF w.bevs[w.ds.dconn].output >= DOWNSTREAM_OUTPUT_UPPER_THRES
          THEN 1 ELSE 0]
  ELSE [w EXCEPT !.ret = 0]

PushUnchanged == UNCHANGED <<htp, wire, sent, up, fed>>

\* hist holds the calls that the member function made on the connection
PushRequestHeaders ==
  /\ fault = "none"
  /\ IF ds.dconn = NoConn
     THEN /\ fault' \in UndefinedOutcomes
          /\ last' = Call("push_request_headers", "", 0)
          /\ hist' = <<>>
          /\ UNCHANGED <<ds, bevs>>
     ELSE \E n \in ChunkLens, r \in TransportResults :
            /\ bevs[ds.dconn].output + n <= MaxOutput
            /\ Returns(push_request_headers(World, n, r),
                       "push_request_headers", "")
            /\ hist' = <<Op("push_request_headers", ds.dconn, <<n, r>>)>>
            /\ UNCHANGED fault
  /\ PushUnchanged

PushUploadDataChunk ==
  \E datalen \in ChunkLens, r \in TransportResults :
    /\ fault = "none"
    /\ ds.dconn # NoConn => bevs[ds.dconn].output + datalen <= MaxOutput
    /\ Returns(push_upload_data_chunk(World, datalen, r),
               "push_upload_data_chunk", "")
    /\ hist' = IF ds.dconn = NoConn THEN <<>>
               ELSE <<Op("push_upload_data_chunk", ds.dconn, <<datalen, r>>)>>
    /\ UNCHANGED fault
    /\ PushUnchanged

GetOutputBufferFull ==
  /\ fault = "none"
  /\ Returns(get_output_buffer_full(World), "get_output_buffer_full", "")
  /\ hist' = <<>>
  /\ UNCHANGED fault
  /\ PushUnchanged

NextPush ==
  \/ SetDownstreamConnection
  \/ PushRequestHeaders
  \/ PushUploadDataChunk
  \/ GetOutputBufferFull

\* the request sent on, connections attached and detached in every order
SpecPush == Init /\ [][NextPush]_vars

----------------------------------------------------------------------------
(* The response: the bytes the backend sends on connection 1, the read     *)
(* callback that parses what has arrived, and the request method set       *)
(* before the backend answers.                                             *)

Backend == 1

Methods == {"GET", "HEAD", "CONNECT", "connect"}

Header(name, value) == Chars(name) \o <<":", " ">> \o Chars(value) \o <<CRLF>>

Continue100 == "HTTP/1.1 100 Continue\r\n"
Ok200 == "HTTP/1.1 200 OK\r\n"
NoContent204 == "HTTP/1.1 204 No Content\r\n"
NotModified304 == "HTTP/1.1 304 Not Modified\r\n"

Wires ==
  { <<Ok200>> \o Header("Content-Length", "2") \o <<CRLF, "a", "b">>,
    <<Ok200>> \o Header("Content-Length", "2") \o <<CRLF>>,
    <<NotModified304>> \o Header("Content-Length", "2") \o <<CRLF>>,
    <<NotModified304>> \o Header("Transfer-Encoding", "chunked") \o <<CRLF>>,
    <<NoContent204>> \o Header("a", "b") \o Header("a", "") \o <<CRLF>>,
    <<Continue100>> \o Header("a", "b") \o <<CRLF, Ok200>>
      \o Header("Content-Length", "1") \o <<CRLF, "a">>,
    <<Ok200>> \o Header("Transfer-Encoding", "chunked")
      \o <<CRLF, "1", CRLF, "a", CRLF, "0", CRLF, CRLF>> }

InitParse == Fresh /\ wire \in Wires

SetRequestMethod ==
  \E method \in Methods :
    /\ fault = "none"
    /\ sent = 0
    /\ ds' = [ds EXCEPT !.request_method = method]
    /\ last' = Call("set_request_method", method, 0)
    /\ UNCHANGED <<htp, bevs, wire, sent, up, fault, hist, fed>>

\* the connection is attached while the request is made, before the backend
\* answers; later it changes in the Upstream's notifications only
AttachConnection ==
  \E dconn \in Conns \cup {NoConn} :
    /\ fault = "none"
    /\ sent = 0
    /\ Returns(set_downstream_connection(World, dconn),
               "set_downstream_connection", "")
    /\ UNCHANGED hist
    /\ IoUnchanged

\* the next bytes of the response reach the input of the backend connection:
\* one byte, or all that is left. The backend answers a request, which has a
\* method; libevent runs the read callback after every read, so the bytes
\* arrive on an input that the callback has had its turn on
Arrive ==
  \E n \in {1, Len(wire) - sent} :
    /\ fault = "none"
    /\ ds.request_method # ""
    /\ bevs[Backend].read_enabled
    /\ bevs[Backend].input = <<>>
    /\ n >= 1
    /\ sent + n <= Len(wire)
    /\ bevs' = [bevs EXCEPT ![Backend].input =
                  @ \o SubSeq(wire, sent + 1, sent + n)]
    /\ sent' = sent + n
    /\ UNCHANGED <<ds, htp, wire, up, last, fault, hist, fed>>

\* what a run st of parse_http_response leaves
Parsed(st) ==
  /\ ds' = st.ds
  /\ bevs' = st.bevs
  /\ htp' = st.htp
  /\ up' = st.up
  /\ fault' = st.fault
  /\ last' = [op |-> "parse_http_response", arg |-> "", ret |-> st.ret,
              resumes |-> <<>>, stale |-> st.stale]

\* parse_http_response, run by the read callback of the attached connection
\* when its input holds bytes; without a connection dconn_->get_bev()
\* dereferences a null pointer
Parse(beh) ==
  /\ fault = "none"
  /\ IF ds.dconn = NoConn
     THEN /\ fault' \in UndefinedOutcomes
          /\ last' = Call("parse_http_response", "", 0)
          /\ UNCHANGED <<ds, htp, bevs, up, fed>>
     ELSE /\ bevs[ds.dconn].input # <<>>
          /\ Parsed(parse_http_response(ParserRun(ds, bevs, htp, up, beh)))
          /\ fed' = IF Len(bevs[ds.dconn].input) = 1 /\ fed # "chunks"
                    THEN "bytewise" ELSE "chunks"
  /\ UNCHANGED <<wire, sent, hist>>

ParseHttpResponse == \E beh \in Behaviours : Parse(beh)

\* the Upstream accepts every notification and leaves the connection alone
ParseAccepted == Parse(Quiet)

NextParse ==
  \/ SetRequestMethod
  \/ AttachConnection
  \/ Arrive
  \/ ParseHttpResponse

\* a response parsed as it arrives, the Upstream answering in every way
SpecParse == InitParse /\ [][NextParse]_vars

NextFeed ==
  \/ SetRequestMethod
  \/ AttachConnection
  \/ Arrive
  \/ ParseAccepted

\* a response parsed as it arrives, byte by byte or in larger pieces
SpecFeed == InitParse /\ [][NextFeed]_vars

----------------------------------------------------------------------------
(* The tunnel and the receive window. recv_window_size_ is an int32_t:     *)
(* an addition that leaves its range is undefined behaviour, which a build *)
(* answers by wrapping around or by stopping the program.                  *)

Statuses == {199, 200, 299, 300}

INT32_MAX == 2147483647
INT32_MIN == -2147483647 - 1

WindowSizes == {1000, INT32_MAX}
WindowAmounts == {-1500, 1}

\* whether v + amount leaves the range of int32_t
Overflows(v, amount) ==
  IF amount >= 0 THEN v > INT32_MAX - amount ELSE v < INT32_MIN - amount

\* v + amount wrapped around by 2^32, for a sum that leaves the range
Wrapped(v, amount) ==
  IF amount >= 0
  THEN (v + INT32_MIN) + (amount + INT32_MIN)
  ELSE (v - INT32_MIN) + (amount - INT32_MIN)

\* true up to status 300
tunnel_established_upto_300(d) ==
  /\ d.request_method = "CONNECT"
  /\ 200 <= d.response_http_status
  /\ d.response_http_status <= 300

tunnel_established(d) ==
  /\ d.request_method = "CONNECT"
  /\ 200 <= d.response_http_status
  /\ d.response_http_status < 300

get_recv_window_size(d) == d.recv_window_size

\* recv_window_size_ += amount, within the range of int32_t
inc_recv_window_size(d, amount) ==
  [d EXCEPT !.recv_window_size = @ + amount]

set_recv_window_size(d, new_size) == [d EXCEPT !.recv_window_size = new_size]

StatusUnchanged == UNCHANGED <<htp, bevs, wire, sent, up, fed>>

SetResponseHttpStatus ==
  \E status \in Statuses :
    /\ fault = "none"
    /\ ds' = set_response_http_status(ds, status)
    /\ last' = Call("set_response_http_status", "", 0)
    /\ UNCHANGED <<fault, hist>>
    /\ StatusUnchanged

TunnelEstablished ==
  /\ fault = "none"
  /\ last' = Call("tunnel_established", "",
                  IF tunnel_established(ds) THEN 1 ELSE 0)
  /\ UNCHANGED <<ds, fault, hist>>
  /\ StatusUnchanged

\* hist holds the set_recv_window_size and inc_recv_window_size calls made
SetRecvWindowSize ==
  \E new_size \in WindowSizes :
    /\ Running
    /\ ds' = set_recv_window_size(ds, new_size)
    /\ last' = Call("set_recv_window_size", "", 0)
    /\ hist' = Append(hist, Op("set_recv_window_size", "window", <<new_size>>))
    /\ UNCHANGED fault
    /\ StatusUnchanged

IncRecvWindowSize ==
  \E amount \in WindowAmounts :
    /\ Running
    /\ last' = Call("inc_recv_window_size", "", 0)
    /\ hist' = Append(hist, Op("inc_recv_window_size", "window", <<amount>>))
    /\ IF ~Overflows(ds.recv_window_size, amount)
       THEN /\ ds' = inc_recv_window_size(ds, amount)
            /\ UNCHANGED fault
       ELSE \/ /\ ds' = [ds EXCEPT !.recv_window_size = Wrapped(@, amount)]
               /\ UNCHANGED fault
            \/ /\ fault' \in UndefinedOutcomes
               /\ UNCHANGED ds
    /\ StatusUnchanged

GetRecvWindowSize ==
  /\ fault = "none"
  /\ last' = Call("get_recv_window_size", "", get_recv_window_size(ds))
  /\ UNCHANGED <<ds, fault, hist>>
  /\ StatusUnchanged

NextStatus ==
  \/ SetRequestMethod
  \/ SetResponseHttpStatus
  \/ TunnelEstablished
  \/ SetRecvWindowSize
  \/ IncRecvWindowSize
  \/ GetRecvWindowSize

\* method, status and receive window set in every order
SpecStatus == Init /\ [][NextStatus]_vars

----------------------------------------------------------------------------
(* The header events of the parser on their own: on_header_field and       *)
(* on_header_value in every order that begins with on_header_field, each   *)
(* with a piece of a name or of a value.                                   *)

FieldData == {"a", "b"}
ValueData == {"", "c"}

\* what a callback run st leaves
Called(st, op, data) ==
  /\ ds' = st.ds
  /\ fault' = st.fault
  /\ last' = Call(op, data, st.ret)
  /\ hist' = Append(hist, Op(op, "response", data))

HooksUnchanged == UNCHANGED <<htp, bevs, wire, sent, up, fed>>

OnHeaderFieldEvent ==
  \E data \in FieldData :
    /\ Running
    /\ Called(htp_hdr_keycb(ParserRun(ds, bevs, htp, up, Quiet), data),
              "on_header_field", data)
    /\ HooksUnchanged

OnHeaderValueEvent ==
  \E data \in ValueData :
    /\ Running
    /\ hist # <<>>
    /\ Called(htp_hdr_valcb(ParserRun(ds, bevs, htp, up, Quiet), data),
              "on_header_value", data)
    /\ HooksUnchanged

NextHooks ==
  \/ OnHeaderFieldEvent
  \/ OnHeaderValueEvent

SpecHooks == Init /\ [][NextHooks]_vars

----------------------------------------------------------------------------
(* What a sequence of header build operations should leave in a store,     *)
(* read off the operations alone.                                          *)

SideOps(h, side) == SelectSeq(h, LAMBDA o : o.side = side)

\* the data of the operations of kind op among s[lo..hi], concatenated in order
RECURSIVE CatOps(_, _, _, _)
CatOps(s, op, lo, hi) ==
  IF lo > hi THEN ""
  ELSE (IF s[lo].op = op THEN s[lo].data[1] ELSE "") \o CatOps(s, op, lo + 1, hi)

\* the last operation that belongs to the field begun at s[i]
FieldEnd(s, i) ==
  LET later == {j \in (i + 1)..Len(s) : s[j].op = "add"}
  IN IF later = {} THEN Len(s)
     ELSE (CHOOSE j \in later : \A k \in later : j <= k) - 1

FieldOf(s, i) ==
  LET e == FieldEnd(s, i)
      sets == {j \in (i + 1)..e : s[j].op = "set"}
      fin == CHOOSE j \in sets : \A k \in sets : k <= j
  IN [first |-> s[i].data[1] \o CatOps(s, "appk", i + 1, e),
      second |-> IF sets = {}
                 THEN s[i].data[2] \o CatOps(s, "appv", i + 1, e)
                 ELSE s[fin].data[1] \o CatOps(s, "appv", fin + 1, e)]

\* one field per "add", in call order
RECURSIVE FieldsFrom(_, _)
FieldsFrom(s, i) ==
  IF i > Len(s) THEN <<>>
  ELSE IF s[i].op = "add" THEN <<FieldOf(s, i)>> \o FieldsFrom(s, i + 1)
  ELSE FieldsFrom(s, i + 1)

ExpectedHeaders(h, side) == FieldsFrom(SideOps(h, side), 1)

\* C8: after any sequence of header build operations that respects the
\* key/value mode, each store holds one entry per begin_field call, in call
\* order and with duplicates; an entry's name is the begin_field name followed
\* by the key bytes appended to it, and its value the last finalized value
\* followed by the value bytes appended after it. Earlier entries are those of
\* the earlier operations: appends and finishes change the last entry only.
C8_StoreHoldsTheFieldsBuilt ==
  fault = "none" =>
    /\ ds.request_headers = ExpectedHeaders(hist, "req")
    /\ ds.response_headers = ExpectedHeaders(hist, "res")

\* a field built in pieces on the response side after a field of the request
\* side: name "Transfer-" + "Encoding", value "chu" + "nked"
C8_Witness ==
  /\ fault = "none"
  /\ Len(hist) = MaxOps
  /\ \E i, j, k \in 1..Len(hist) :
       /\ i < j /\ j < k
       /\ hist[i] = Op("appk", "res", <<"Encoding">>)
       /\ hist[j] = Op("set", "res", <<"chu">>)
       /\ hist[k] = Op("appv", "res", <<"nked">>)
  /\ ds.response_headers = <<[first |-> "Transfer-Encoding", second |-> "chunked"]>>

\* an append issued in the wrong mode
MisusedAppend ==
  \/ /\ last'.op = "append_last_request_header_key"
     /\ ~ds.request_header_key_prev
  \/ /\ last'.op = "append_last_request_header_value"
     /\ ds.request_header_key_prev
  \/ /\ last'.op = "append_last_response_header_key"
     /\ ~ds.response_header_key_prev
  \/ /\ last'.op = "append_last_response_header_value"
     /\ ds.response_header_key_prev

\* C9: an append_key while key mode is inactive (before any begin_field, or
\* after finish_value) and an append_value while key mode is active fail an
\* assertion and leave both header stores as they were, on the request side
\* and on the response side.
C9_MisusedAppendIsRejected ==
  [][MisusedAppend =>
       /\ fault' = "assert"
       /\ ds'.request_headers = ds.request_headers
       /\ ds'.response_headers = ds.response_headers]_vars

\* an append_value rejected right after a begin_field, the field left as begun
C9_Witness ==
  /\ fault = "assert"
  /\ last.op = "append_last_response_header_value"
  /\ ds.response_header_key_prev
  /\ Len(ds.response_headers) = 1
  /\ ds.response_headers[1].second = ""

\* a value operation on a store that holds no field yet
ValueOpOnEmptyStore ==
  \/ /\ last'.op \in {"append_last_request_header_value",
                      "set_last_request_header_value"}
     /\ Len(ds.request_headers) = 0
  \/ /\ last'.op \in {"append_last_response_header_value",
                      "set_last_response_header_value"}
     /\ Len(ds.response_headers) = 0

\* C10: a value operation (append_value or finish_value) issued before any
\* field exists in the store is rejected by an assertion instead of reaching a
\* last element that does not exist.
C10_ValueOpOnEmptyStoreAsserts ==
  [][ValueOpOnEmptyStore => fault' = "assert"]_vars

\* every field of the side was begun with an empty value and finalized once
BuiltByFinish(side) ==
  LET s == SideOps(hist, side)
  IN /\ \A i \in 1..Len(s) : s[i].op = "add" => s[i].data[2] = ""
     /\ \A i \in 1..Len(s) :
          s[i].op = "add" =>
            Cardinality({j \in (i + 1)..FieldEnd(s, i) : s[j].op = "set"}) = 1

\* the flag a store gives when every value is delivered whole, in one
\* finish_value: the check runs once per field, on its name and whole value
WholeValueFlag(hs, name, value) ==
  \E i \in 1..Len(hs) : check_header_field(FALSE, hs[i], name, value)

\* C5: the derived flags are those of the complete values: with a value
\* delivered in pieces (finish_value, then append_value) each flag is what it
\* would be had every value arrived in one piece.
C5_FlagsAreThoseOfTheWholeValues ==
  /\ (fault = "none" /\ BuiltByFinish("res")) =>
       ds.chunked_response =
         WholeValueFlag(ds.response_headers, "transfer-encoding", "chunked")
  /\ (fault = "none" /\ BuiltByFinish("req")) =>
       /\ ds.chunked_request =
            WholeValueFlag(ds.request_headers, "transfer-encoding", "chunked")
       /\ ds.request_expect_100_continue =
            WholeValueFlag(ds.request_headers, "expect", "100-continue")

----------------------------------------------------------------------------
(* Claims about the I/O control and the body buffer *)

\* whether the bufferevent bound to the I/O control reads
Bound == ds.ioctrl_bev # NoConn
Reading == bevs[ds.ioctrl_bev].read_enabled

\* the reading of every bufferevent after a step that may switch on that of
\* the bound one
ReadingAfter(on) ==
  \A c \in Conns :
    bevs'[c].read_enabled =
      IF on /\ ds.ioctrl_bev = c THEN TRUE ELSE bevs[c].read_enabled

\* C6: pause_read(reason) adds the reason and stops reading; resume_read(reason)
\* clears that reason only, re-enables reading only when no reason remains and
\* reports whether it did (so after pause(A); pause(B); resume(A) reading is
\* still paused and resume(A) reported no resume, and resume(B) then resumes);
\* force_resume_read clears every reason and re-enables reading.
C6_ResumeWhenLastReasonClears ==
  [][/\ last'.op = "pause_read" =>
          /\ ds'.ioctrl_rdbits = ds.ioctrl_rdbits \cup {last'.arg}
          /\ Bound => ~Reading'
     /\ last'.op = "resume_read" =>
          LET left == ds.ioctrl_rdbits \ {last'.arg}
          IN /\ ds'.ioctrl_rdbits = left
             /\ last'.ret = (IF left = {} THEN 1 ELSE 0)
             /\ ReadingAfter(left = {})
     /\ last'.op = "force_resume_read" =>
          /\ ds'.ioctrl_rdbits = {}
          /\ ReadingAfter(TRUE)]_vars

\* pause(A); pause(B); resume(A) on one connection: no resume reported, B
\* still active, reading still off
C6_Witness ==
  /\ hist = <<Op("pause_read", "io", <<SHRPX_NO_BUFFER>>),
              Op("pause_read", "io", <<SHRPX_MSG_BLOCK>>),
              Op("resume_read", "io", <<SHRPX_NO_BUFFER>>)>>
  /\ last.op = "resume_read"
  /\ last.ret = 0
  /\ ds.ioctrl_rdbits = {SHRPX_MSG_BLOCK}
  /\ Bound
  /\ ~Reading

\* C7: once init_response_body_buf has run, a change of the body buffer from
\* nonempty to empty makes exactly one resume_read(SHRPX_NO_BUFFER) call and a
\* change that leaves it nonempty makes none; a second init_response_body_buf
\* neither creates a second buffer nor registers a second callback.
C7_OneResumePerDrainToEmpty ==
  /\ [](ds.response_body_buf.id <= 1 /\ ds.response_body_buf.cbs <= 1)
  /\ [][/\ last'.op \in {"evbuffer_add", "evbuffer_drain"} =>
             IF ds.response_body_buf.len > 0 /\ ds'.response_body_buf.len = 0
             THEN last'.resumes = <<SHRPX_NO_BUFFER>>
             ELSE ds'.response_body_buf.len > 0 => last'.resumes = <<>>
        /\ (last'.op = "init_response_body_buf" /\ ds.response_body_buf.id # 0) =>
             ds'.response_body_buf = ds.response_body_buf]_vars

\* the buffer drained to empty while SHRPX_NO_BUFFER paused the reads: one
\* resume_read call, which resumed them
C7_Witness ==
  /\ last.op = "evbuffer_drain"
  /\ last.resumes = <<SHRPX_NO_BUFFER>>
  /\ last.ret = 1
  /\ hist # <<>>
  /\ hist[Len(hist)] = Op("pause_read", "io", <<SHRPX_NO_BUFFER>>)
  /\ ds.response_body_buf = [id |-> 1, len |-> 0, cbs |-> 1]
  /\ Bound
  /\ Reading

----------------------------------------------------------------------------
(* The response parser: what the Upstream is notified of                   *)

\* a response that carries no body whatever its headers say
Bodiless(n) == n.method = "HEAD" \/ n.status \in {204, 304}

\* C1: when the request method is HEAD or the status is 204 or 304 and the
\* header-complete notification returns zero, the very next notification is
\* message-complete, made in response state MSG_COMPLETE, and no body
\* notification is made before the next response's header-complete,
\* whatever Content-Length or Transfer-Encoding the response carries.
C1_BodilessResponseCompletesAtOnce ==
  \A i \in 1..Len(up) :
    (up[i].ev = "hc" /\ up[i].ret = 0 /\ Bodiless(up[i])) =>
      /\ i < Len(up)
      /\ up[i + 1].ev = "mc"
      /\ up[i + 1].state = MSG_COMPLETE
      /\ \A j \in (i + 1)..Len(up) :
           up[j].ev = "body" => \E k \in (i + 1)..(j - 1) : up[k].ev = "hc"

\* a 304 that announces a body of two bytes was followed by message-complete
C1_Witness ==
  \E i \in 1..Len(up) :
    /\ up[i].ev = "hc"
    /\ up[i].ret = 0
    /\ up[i].method = "GET"
    /\ up[i].status = 304
    /\ up[i].headers = <<[first |-> "Content-Length", second |-> "2"]>>
    /\ i < Len(up)
    /\ up[i + 1].ev = "mc"

\* C2: the response state only advances, INITIAL to HEADER_COMPLETE to
\* MSG_COMPLETE, over every sequence of parser events, a 1xx response
\* followed by the final response included.
C2_ResponseStateNeverRegresses ==
  [][ds'.response_state >= ds.response_state]_vars

\* C3: once a notification made during parse_http_response has detached or
\* replaced the connection, the call delivers no further parser event and
\* does nothing more, the drain included, to the input of the connection it
\* began with.
C3_NothingAfterTheConnectionChanged ==
  last.op = "parse_http_response" => last.stale = 0

----------------------------------------------------------------------------
(* One byte per call against a single call                                 *)

\* the notifications with the pieces of one body put together
RECURSIVE Coalesce(_)
Coalesce(log) ==
  IF Len(log) < 2 THEN log
  ELSE LET rest == Coalesce(Tail(log))
       IN IF log[1].ev = "body" /\ rest[1].ev = "body"
          THEN <<[rest[1] EXCEPT !.data = log[1].data \o @]>> \o Tail(rest)
          ELSE <<log[1]>> \o rest

\* parse_http_response called once on data, by a Downstream made for the
\* request method and attached to the backend connection
SingleCall(method, data) ==
  LET w == set_downstream_connection(
             [ds |-> [Downstream_ctor EXCEPT !.request_method = method],
              bevs |-> [c \in Conns |-> [input |-> IF c = Backend THEN data
                                                   ELSE <<>>,
                                         read_enabled |-> TRUE,
                                         output |-> 0]],
              ret |-> 0, resumes |-> <<>>], Backend)
  IN parse_http_response(ParserRun(w.ds, w.bevs, http_parser_init, <<>>, Quiet))

\* the calls so far have parsed all that the backend sent, without an error
FedSoFar ==
  /\ fault = "none"
  /\ sent > 0
  /\ ds.dconn = Backend
  /\ bevs[Backend].input = <<>>
  /\ last.op = "parse_http_response"
  /\ last.ret = 0

SameAsSingleCall(single) ==
  /\ single.ret = 0
  /\ Coalesce(up) = Coalesce(single.up)
  /\ ds.response_headers = single.ds.response_headers
  /\ ds.response_header_key_prev = single.ds.response_header_key_prev
  /\ ds.response_http_status = single.ds.response_http_status
  /\ ds.response_major = single.ds.response_major
  /\ ds.response_minor = single.ds.response_minor
  /\ ds.response_connection_close = single.ds.response_connection_close
  /\ ds.response_state = single.ds.response_state

\* C4: a response fed to parse_http_response one byte per call, or cut in any
\* other way, gives the notifications of a single call on the same bytes, in
\* the same order: the same headers, status and version at header-complete,
\* the same body bytes, and the same header store, status, version and
\* response state at the end.
C4_FeedingInPiecesIsFeedingAtOnce ==
  FedSoFar => SameAsSingleCall(SingleCall(ds.request_method,
                                          SubSeq(wire, 1, sent)))

\* a whole response with a body of two bytes was fed one byte per call
C4_Witness ==
  /\ FedSoFar
  /\ fed = "bytewise"
  /\ sent = Len(wire)
  /\ ds.response_state = MSG_COMPLETE
  /\ ds.response_headers = <<[first |-> "Content-Length", second |-> "2"]>>
  /\ Len(up) = 4
  /\ up[2].ev = "body" /\ up[2].data = "a"
  /\ up[3].ev = "body" /\ up[3].data = "b"
  /\ Len(Coalesce(up)) = 3

----------------------------------------------------------------------------
(* The request sent on without a connection, and the connection's binding  *)

\* C11: push_request_headers on a Downstream without a connection is a checked
\* violation of its precondition, an assertion that fails or an error result;
\* the absent connection is never used.
C11_PushWithoutConnectionIsChecked ==
  (last.op = "push_request_headers" /\ ds.dconn = NoConn) =>
    \/ fault = "assert"
    \/ fault = "none" /\ last.ret # 0

\* C12: push_upload_data_chunk without a connection returns 0, fails nothing
\* and leaves the Downstream and every connection as they were; with a
\* connection it makes one push_upload_data_chunk call on that connection and
\* returns its result.
C12_UploadWithoutConnectionIsNoOp ==
  [][last'.op = "push_upload_data_chunk" =>
       IF ds.dconn = NoConn
       THEN /\ last'.ret = 0
            /\ fault' = "none"
            /\ ds' = ds
            /\ bevs' = bevs
            /\ hist' = <<>>
       ELSE /\ Len(hist') = 1
            /\ hist'[1].op = "push_upload_data_chunk"
            /\ hist'[1].side = ds.dconn
            /\ last'.ret = hist'[1].data[2]]_vars

\* upload data pushed after the connection, which had taken data, was detached
C12_Witness ==
  /\ last.op = "push_upload_data_chunk"
  /\ last.ret = 0
  /\ fault = "none"
  /\ ds.dconn = NoConn
  /\ hist = <<>>
  /\ bevs[Backend].output > 0

\* C19: after every sequence of set_downstream_connection calls the I/O
\* control is bound to the bufferevent of the one connection attached, and to
\* none exactly when no connection is attached; get_output_buffer_full is
\* false when no connection is attached.
C19_IoControlFollowsTheConnection ==
  /\ ds.dconn \in Conns \cup {NoConn}
  /\ ds.ioctrl_bev = ds.dconn
  /\ (last.op = "get_output_buffer_full" /\ ds.dconn = NoConn) => last.ret = 0

\* the output of a connection was full when the connection was detached
C19_Witness ==
  /\ last.op = "get_output_buffer_full"
  /\ last.ret = 0
  /\ ds.dconn = NoConn
  /\ ds.ioctrl_bev = NoConn
  /\ bevs[Backend].output >= DOWNSTREAM_OUTPUT_UPPER_THRES

----------------------------------------------------------------------------
(* Informational responses, failed notifications, the bytes drained and    *)
(* the order of the notifications                                          *)

Informational(n) == 100 <= n.status /\ n.status <= 199

\* the header-complete notifications before the i-th one
EarlierResponses(i) == {j \in 1..(i - 1) : up[j].ev = "hc"}

Fields(n) == {n.headers[k] : k \in 1..Len(n.headers)}

\* C13: an informational response (100..199) does not leave the response
\* state at MSG_COMPLETE, and the header fields notified for the response
\* after it are a new set without the informational response's fields.
C13_InformationalStartsAFreshCycle ==
  \A i \in 1..Len(up) :
    /\ (up[i].ev = "mc" /\ Informational(up[i])) => up[i].state # MSG_COMPLETE
    /\ up[i].ev = "hc" =>
         \A j \in EarlierResponses(i) :
           Informational(up[j]) => Fields(up[i]) \cap Fields(up[j]) = {}

\* a notification has failed
Failed == up # <<>> /\ up[Len(up)].ret # 0

\* C16: after a notification returned nonzero during parse_http_response no
\* later notification is made, that call returns SHRPX_ERR_HTTP_PARSE, and
\* every later call returns it too, notifies nothing and drains nothing.
C16_FailedNotificationStopsParsing ==
  /\ [](\A i \in 1..Len(up) : up[i].ret # 0 => i = Len(up))
  /\ []((Failed /\ last.op = "parse_http_response") =>
          /\ fault = "none"
          /\ last.ret = SHRPX_ERR_HTTP_PARSE
          /\ htp.http_errno # "HPE_OK")
  /\ [][(Failed /\ last'.op = "parse_http_response" /\ sent' = sent) =>
          /\ up' = up
          /\ ds' = ds
          /\ bevs' = bevs
          /\ last'.ret = SHRPX_ERR_HTTP_PARSE]_vars

\* the body notification of a chunked response failed with bytes of the
\* response still in the input, so that a later call can be made
C16_Witness ==
  /\ Failed
  /\ up[Len(up)].ev = "body"
  /\ Len(up) = 2
  /\ last.op = "parse_http_response"
  /\ last.ret = SHRPX_ERR_HTTP_PARSE
  /\ htp.http_errno = "HPE_CB_body"
  /\ bevs[Backend].input # <<>>

\* what http_parser_execute makes of the input now, the Upstream accepting
ExecuteNow ==
  http_parser_execute(ParserRun(ds, bevs, htp, up, Quiet), bevs[ds.dconn].input)

\* the step is a parse_http_response call on input
Parsing ==
  /\ last'.op = "parse_http_response"
  /\ sent' = sent
  /\ fault' = "none"
  /\ ds.dconn # NoConn
  /\ bevs[ds.dconn].input # <<>>

DrainedAndReturned(st, input) ==
  /\ bevs'[ds.dconn].input = SubSeq(input, st.nread + 1, Len(input))
  /\ Len(bevs'[ds.dconn].input) = Len(input) - st.nread
  /\ htp' = st.htp
  /\ last'.ret = IF st.htp.http_errno = "HPE_OK" THEN 0
                 ELSE SHRPX_ERR_HTTP_PARSE

\* C17: a parse_http_response call takes from the connection's input exactly
\* the bytes that http_parser_execute reports as consumed, returns 0 when the
\* parser is in no error state, a message not yet complete included, and
\* returns SHRPX_ERR_HTTP_PARSE only when the parser is in an error state.
C17_DrainsWhatTheParserConsumed ==
  [][Parsing => DrainedAndReturned(ExecuteNow, bevs[ds.dconn].input)]_vars

\* the byte after the response to a HEAD request is no status line: the
\* call took the response from the input, left that byte and returned the
\* error
C17_Witness ==
  /\ last.op = "parse_http_response"
  /\ last.ret = SHRPX_ERR_HTTP_PARSE
  /\ fault = "none"
  /\ htp.http_errno = "HPE_INVALID_CONSTANT"
  /\ ds.request_method = "HEAD"
  /\ ds.response_state = MSG_COMPLETE
  /\ bevs[Backend].input = <<"a", "b">>
  /\ sent = Len(wire)

\* C18: on_downstream_body is made only in response state HEADER_COMPLETE,
\* never in INITIAL or MSG_COMPLETE, and the notifications of each response
\* come in the order header-complete, any number of body, body-complete.
C18_BodyOnlyBetweenHeadersAndComplete ==
  \A i \in 1..Len(up) :
    /\ up[i].ev = "hc" => (i = 1 \/ up[i - 1].ev = "mc")
    /\ up[i].ev = "body" =>
         /\ up[i].state = HEADER_COMPLETE
         /\ i > 1
         /\ up[i - 1].ev \in {"hc", "body"}
    /\ up[i].ev = "mc" => (i > 1 /\ up[i - 1].ev \in {"hc", "body"})

\* a chunked response: header-complete, its one chunk as body, body-complete
C18_Witness ==
  /\ Len(up) = 3
  /\ up[1].ev = "hc" /\ up[1].state = HEADER_COMPLETE
  /\ up[1].headers = <<[first |-> "Transfer-Encoding", second |-> "chunked"]>>
  /\ up[2].ev = "body" /\ up[2].state = HEADER_COMPLETE /\ up[2].data = "a"
  /\ up[3].ev = "mc" /\ up[3].state = MSG_COMPLETE

----------------------------------------------------------------------------
(* The tunnel and the receive window                                       *)

Tunnel == ds.request_method = "CONNECT" /\ ds.response_http_status \in 200..299

\* C14: tunnel_established() is true exactly when the request method is
\* "CONNECT" and the response status is in 200..299: false for status 0, 199
\* and 300 and for every other method.
C14_TunnelOnlyForConnectAnd2xx ==
  /\ tunnel_established(ds) <=> Tunnel
  /\ last.op = "tunnel_established" => (last.ret = 1 <=> Tunnel)
  /\ (last.op = "tunnel_established"
        /\ (ds.response_http_status \in {0, 199, 300}
              \/ ds.request_method # "CONNECT")) => last.ret = 0

\* asked of a CONNECT request answered with status 299
C14_Witness ==
  /\ last.op = "tunnel_established"
  /\ last.ret = 1
  /\ ds.request_method = "CONNECT"
  /\ ds.response_http_status = 299

\* the window went from v to v1 by adding amount
Added(v, v1, amount) ==
  IF amount >= 0
  THEN v1 >= v /\ v1 - v = amount
  ELSE v1 <= v /\ v - v1 = -amount

\* the argument of the set_recv_window_size or inc_recv_window_size call made
LastArgument(h) == h[Len(h)].data[1]

\* C15: the receive window starts at 0, set_recv_window_size makes it the
\* value given, inc_recv_window_size adds the amount given to it without
\* clamping at zero, so that it is the last value set, or 0, plus the amounts
\* added since; get_recv_window_size returns it and no other operation
\* changes it.
C15_WindowIsSetValuePlusAmounts ==
  /\ [](hist = <<>> => ds.recv_window_size = 0)
  /\ [][fault' = "none" =>
          /\ last'.op = "set_recv_window_size" =>
               ds'.recv_window_size = LastArgument(hist')
          /\ last'.op = "inc_recv_window_size" =>
               Added(ds.recv_window_size, ds'.recv_window_size,
                     LastArgument(hist'))
          /\ last'.op \notin {"set_recv_window_size", "inc_recv_window_size"} =>
               ds'.recv_window_size = ds.recv_window_size
          /\ last'.op = "get_recv_window_size" =>
               last'.ret = ds.recv_window_size]_vars

----------------------------------------------------------------------------
(* The header events of the parser                                         *)

\* the event before the last of h was a header-field event
AfterField(h) == Len(h) > 1 /\ h[Len(h) - 1].op = "on_header_field"

\* the fields that the events h spell out: a header-field event starts a
\* field unless it follows a header-field event, a header-value event sets
\* the value when it follows a header-field event and extends it otherwise
RECURSIVE EventFields(_)
EventFields(h) ==
  IF h = <<>> THEN <<>>
  ELSE LET fs == EventFields(SubSeq(h, 1, Len(h) - 1))
           o == h[Len(h)]
       IN IF o.op = "on_header_field"
          THEN IF AfterField(h)
               THEN SetBack(fs, [Back(fs) EXCEPT !.first = @ \o o.data])
               ELSE Append(fs, [first |-> o.data, second |-> ""])
          ELSE IF AfterField(h)
               THEN SetBack(fs, [Back(fs) EXCEPT !.second = o.data])
               ELSE SetBack(fs, [Back(fs) EXCEPT !.second = @ \o o.data])

\* C20: over every sequence of header-field and header-value events that
\* begins with a header-field event no assertion of the append operations
\* fails and nothing else goes wrong; a header-field event starts a field
\* when the event before it was a header-value event or there was none and
\* extends the name otherwise, a header-value event sets the value on the
\* first value data and extends it otherwise.
C20_HeaderEventsKeepTheMode ==
  /\ fault = "none"
  /\ last.ret = 0
  /\ ds.response_headers = EventFields(hist)
  /\ ds.response_header_key_prev =
       (hist # <<>> /\ hist[Len(hist)].op = "on_header_field")

\* a name and a value that each came in two pieces
C20_Witness ==
  /\ Len(hist) = 4
  /\ hist[1] = Op("on_header_field", "response", "a")
  /\ hist[2] = Op("on_header_field", "response", "b")
  /\ hist[3] = Op("on_header_value", "response", "c")
  /\ hist[4] = Op("on_header_value", "response", "c")
  /\ ds.response_headers = <<[first |-> "ab", second |-> "cc"]>>
  /\ ~ds.response_header_key_prev
  /\ fault = "none"

====
